---- MODULE Spec2Model ----
(***************************************************************************)
(* Model of implementations/tutorial_vqe_parallel.py: the script that      *)
(* builds the H2 qubit Hamiltonians, binds their terms to a pool of        *)
(* simulated QPUs, evaluates the potential energy surface once             *)
(* sequentially and once in parallel, reports the timings and plots.       *)
(*                                                                         *)
(* Reals are scaled to integers: a separation of 0.3 angstrom is 3.        *)
(* The chemistry routine, the circuit simulation and the parameter file    *)
(* are external; they are modelled as fixed functions of their arguments.  *)
(* Wall-clock readings are abstracted to the token "measured".             *)
(* The script is modelled at its full size: ten separations, fifteen terms *)
(* per Hamiltonian, eight plus seven devices.                              *)
(***************************************************************************)
EXTENDS Integers, Sequences, FiniteSets, TLC

VARIABLES
    pc,            \* position of the script
    data,          \* l.52: list of <<separation, file>> in insertion order
    hamiltonians,  \* l.68
    devs_4,        \* l.111
    devs_7,        \* l.112
    devs,          \* l.113
    params,        \* l.137
    energies,      \* l.142
    phase,         \* 0 before the passes, 1 in the first call, 2 in the second
    s,             \* l.158: local list of calculate_surface
    t0,            \* l.159: local start time
    running,       \* QNode evaluations in progress: set of <<separation index, term index>>
    results,       \* term index -> expectation value, for the cost object being evaluated
    loaded,        \* device id -> the job the device is executing
    surface,       \* l.172, l.175
    t_seq,         \* l.172
    t_par,         \* l.175
    out,           \* console output, one entry per print
    plot,          \* the points drawn by plt.plot
    ret,           \* history: the surface returned by each call, in call order
    started,       \* history: <<parallel flag, separation index>> of every e(...) call made
    failedAt       \* where an uncaught exception was raised ("" if none)

vars == <<pc, data, hamiltonians, devs_4, devs_7, devs, params, energies, phase,
          s, t0, running, results, loaded, surface, t_seq, t_par, out, plot,
          ret, started, failedAt>>

globals == <<data, hamiltonians, devs_4, devs_7, devs, params, energies>>
locals == <<s, t0, running, results, loaded>>
outputs == <<surface, t_seq, t_par, out, plot, ret>>

----------------------------------------------------------------------------
(* Program constants *)

NumSeps == 10
NumTerms == 15
N4 == 8
N7 == 7

Chip4 == "Aspen-4-4Q-E"
Chip7 == "Aspen-7-4Q-C"

Unset == "unset"
Measured == "measured"

NoJob == [ham |-> 0, term |-> 0, param |-> 0]

\* keys of data: 0.3, 0.5, ..., 2.1 (in tenths of an angstrom)
Separation(i) == 2 * i + 1

\* values of data: "vqe_parallel/h2_0.30.xyz", ... (the number in the name, in hundredths)
File(i) == 10 * Separation(i)

DataTable == [i \in 1..NumSeps |-> [sep |-> Separation(i), file |-> File(i)]]

\* list(data.keys())[i] with Python's 0-based i
DataKey(i) == data[i + 1].sep

\* qchem.generate_hamiltonian(...)[0]: a linear combination of NumTerms Pauli
\* words, held as the lists coeffs and ops; the words are the same for every
\* separation, the coefficients depend on the geometry
GenerateHamiltonian(separation, file) ==
    [coeffs |-> [k \in 1..NumTerms |-> ((separation + file + k) % 5) + 1],
     ops |-> [k \in 1..NumTerms |-> k]]

\* np.load("vqe_parallel/RY_params.npy"): one rotation per separation; the
\* contents of the file are an input, two candidate contents are considered
ParamFiles ==
    {[i \in 1..NumSeps |-> 20 + 3 * i],
     [i \in 1..NumSeps |-> 61 - 5 * i]}

\* circuit(param, wires) followed by the measurement of one Pauli word
Expval(op, param) == ((op * param + op * op) % 7) - 3

\* qml.device("forest.qvm", device=chip): a fresh device object
Device(id, chip) == [id |-> id, chip |-> chip]

NoSurface == <<>>
NoPlot == <<>>

\* a slip in l.113: devs_4 + devs_4[:7], the same device objects listed twice
ConcatFirstTwice(a, b) == a \o SubSeq(a, 1, Len(b))

\* devs_4 + devs_7
Concat(a, b) == a \o b

\* a cost object that runs every term on the first device of the pool
VQECostOneDevice(h, dv) ==
    [ham |-> h, devs |-> [k \in 1..Len(hamiltonians[h].ops) |-> dv[1].id]]

\* a cost object that pairs the terms with the pool in reverse order
VQECostReversed(h, dv) ==
    [ham |-> h,
     devs |-> [k \in 1..Len(hamiltonians[h].ops) |->
                  dv[Len(hamiltonians[h].ops) + 1 - k].id]]

\* qml.VQECost(circuit, h, devs): one QNode per term of h, term k on the k-th
\* device. The cost object refers to its Hamiltonian and to the device
\* objects: h is the position of the Hamiltonian in hamiltonians, a device is
\* referred to by its id.
VQECost(h, dv) ==
    [ham |-> h, devs |-> [k \in 1..Len(hamiltonians[h].ops) |-> dv[k].id]]

\* both calls made with parallel=True
PassFlagBothParallel(p) == TRUE

\* the parallel keyword of the two calls of calculate_surface
PassFlag(p) == p = 2

\* the same parameter, params[0], used for every separation
ParamAtFirst(i) == params[1]

\* params[i] with Python's 0-based i
ParamAt(i) == params[i + 1]

\* a collection that ignores the parallel keyword and always submits everything
DispatchSetIgnoringFlag(parallel, e, res) ==
    IF DOMAIN res = {} THEN DOMAIN e.devs ELSE {}

\* the QNodes a QNodeCollection submits next: all of them at once when
\* parallel, the next one in term order otherwise
DispatchSet(parallel, e, res) ==
    IF parallel
    THEN (IF DOMAIN res = {} THEN DOMAIN e.devs ELSE {})
    ELSE {Cardinality(DOMAIN res) + 1} \cap DOMAIN e.devs

\* a device executing a QNode holds the circuit and observable it was given;
\* if several QNodes are given to one device, the last one submitted stays
Load(ld, e, param, D) ==
    [d \in DOMAIN ld |->
        LET mine == {k \in D : e.devs[k] = d}
        IN  IF mine = {} THEN ld[d]
            ELSE [ham |-> e.ham,
                  term |-> CHOOSE x \in mine : \A y \in mine : y <= x,
                  param |-> param]]

\* the expectation value a device returns for the job it holds
Measure(job) ==
    IF job = NoJob THEN 0
    ELSE Expval(hamiltonians[job.ham].ops[job.term], job.param)

RECURSIVE DotUpTo(_, _, _)
DotUpTo(coeffs, res, n) ==
    IF n = 0 THEN 0 ELSE DotUpTo(coeffs, res, n - 1) + coeffs[n] * res[n]

\* the cost value: coefficients dotted with the term results, by term index
Dot(e, res) == DotUpTo(hamiltonians[e.ham].coeffs, res, Len(hamiltonians[e.ham].coeffs))

\* plt.plot(surface, ...): a single list is drawn against its indices 0..n-1
PlotPoints(ys) == [j \in 1..Len(ys) |-> [x |-> j - 1, y |-> ys[j]]]

\* steps that call into the external libraries and so can raise
Failable == {"hamiltonians", "devs_4", "devs_7", "params", "energies", "eval", "plot"}

\* a handler that swallows the exception and lets the script go on
AfterRaiseSwallowed(at) == at

\* the script has no try/except: an exception ends it
AfterRaise(at) == "failed"

----------------------------------------------------------------------------
Init ==
    /\ pc = "data"
    /\ data = <<>>
    /\ hamiltonians = <<>>
    /\ devs_4 = <<>>
    /\ devs_7 = <<>>
    /\ devs = <<>>
    /\ params = <<>>
    /\ energies = <<>>
    /\ phase = 0
    /\ s = <<>>
    /\ t0 = Unset
    /\ running = {}
    /\ results = <<>>
    /\ loaded = [d \in 1..(N4 + N7) |-> NoJob]
    /\ surface = NoSurface
    /\ t_seq = Unset
    /\ t_par = Unset
    /\ out = <<>>
    /\ plot = NoPlot
    /\ ret = <<>>
    /\ started = <<>>
    /\ failedAt = ""

\* l.52-63
DefineData ==
    /\ pc = "data"
    /\ data' = DataTable
    /\ pc' = "hamiltonians"
    /\ UNCHANGED <<hamiltonians, devs_4, devs_7, devs, params, energies, phase,
                   locals, outputs, started, failedAt>>

\* l.68-79, one element of the comprehension
BuildHamiltonian ==
    /\ pc = "hamiltonians"
    /\ Len(hamiltonians) < Len(data)
    /\ LET d == data[Len(hamiltonians) + 1]
       IN  hamiltonians' = Append(hamiltonians, GenerateHamiltonian(d.sep, d.file))
    /\ pc' = IF Len(hamiltonians') = Len(data) THEN "print_lens" ELSE pc
    /\ UNCHANGED <<data, devs_4, devs_7, devs, params, energies, phase,
                   locals, outputs, started, failedAt>>

\* l.85
PrintLens ==
    /\ pc = "print_lens"
    /\ out' = Append(out, <<"lens", [i \in 1..Len(hamiltonians) |-> Len(hamiltonians[i].ops)]>>)
    /\ pc' = "devs_4"
    /\ UNCHANGED <<globals, phase, locals, surface, t_seq, t_par, plot, ret,
                   started, failedAt>>

\* l.111, one element of the comprehension
CreateDev4 ==
    /\ pc = "devs_4"
    /\ devs_4' = Append(devs_4, Device(Len(devs_4) + 1, Chip4))
    /\ pc' = IF Len(devs_4') = N4 THEN "devs_7" ELSE pc
    /\ UNCHANGED <<data, hamiltonians, devs_7, devs, params, energies, phase,
                   locals, outputs, started, failedAt>>

\* l.112, one element of the comprehension
CreateDev7 ==
    /\ pc = "devs_7"
    /\ devs_7' = Append(devs_7, Device(Len(devs_4) + Len(devs_7) + 1, Chip7))
    /\ pc' = IF Len(devs_7') = N7 THEN "devs" ELSE pc
    /\ UNCHANGED <<data, hamiltonians, devs_4, devs, params, energies, phase,
                   locals, outputs, started, failedAt>>

\* l.113
ConcatDevs ==
    /\ pc = "devs"
    /\ devs' = Concat(devs_4, devs_7)
    /\ pc' = "params"
    /\ UNCHANGED <<data, hamiltonians, devs_4, devs_7, params, energies, phase,
                   locals, outputs, started, failedAt>>

\* l.137
LoadParams ==
    /\ pc = "params"
    /\ \E f \in ParamFiles : params' = f
    /\ pc' = "energies"
    /\ UNCHANGED <<data, hamiltonians, devs_4, devs_7, devs, energies, phase,
                   locals, outputs, started, failedAt>>

\* l.142, one element of the comprehension
BuildCost ==
    /\ pc = "energies"
    /\ Len(energies) < Len(hamiltonians)
    /\ energies' = Append(energies, VQECost(Len(energies) + 1, devs))
    /\ pc' = IF Len(energies') = Len(hamiltonians) THEN "banner" ELSE pc
    /\ phase' = IF Len(energies') = Len(hamiltonians) THEN 1 ELSE phase
    /\ UNCHANGED <<data, hamiltonians, devs_4, devs_7, devs, params,
                   locals, outputs, started, failedAt>>

\* l.171, l.174
PrintBanner ==
    /\ pc = "banner"
    /\ out' = Append(out, <<"banner", PassFlag(phase)>>)
    /\ pc' = "enter"
    /\ UNCHANGED <<globals, phase, locals, surface, t_seq, t_par, plot, ret,
                   started, failedAt>>

\* l.157-159: calculate_surface(parallel=PassFlag(phase)) is entered
Enter ==
    /\ pc = "enter"
    /\ s' = <<>>
    /\ t0' = Measured
    /\ pc' = "loop"
    /\ UNCHANGED <<globals, phase, running, results, loaded, outputs, started, failedAt>>

\* l.161-162: the loop takes the next cost object and prints the progress line
PrintRunning ==
    /\ pc = "loop"
    /\ Len(s) < Len(energies)
    /\ out' = Append(out, <<"running", DataKey(Len(s))>>)
    /\ pc' = "call"
    /\ UNCHANGED <<globals, phase, locals, surface, t_seq, t_par, plot, ret,
                   started, failedAt>>

\* l.163: e(params[i], parallel=parallel) is called
CallCost ==
    /\ pc = "call"
    /\ started' = Append(started, <<PassFlag(phase), Len(s) + 1>>)
    /\ pc' = "eval"
    /\ UNCHANGED <<globals, phase, locals, outputs, failedAt>>

\* l.163: the QNodeCollection submits QNodes to their devices
Dispatch ==
    /\ pc = "eval"
    /\ running = {}
    /\ LET i == Len(s) + 1
           e == energies[i]
           D == DispatchSet(PassFlag(phase), e, results)
       IN  /\ D # {}
           /\ running' = {<<i, k>> : k \in D}
           /\ loaded' = Load(loaded, e, ParamAt(Len(s)), D)
    /\ UNCHANGED <<pc, globals, phase, s, t0, results, outputs, started, failedAt>>

\* l.163: one QNode evaluation completes and its device returns the value
Finish(k) ==
    /\ pc = "eval"
    /\ <<Len(s) + 1, k>> \in running
    /\ LET d == energies[Len(s) + 1].devs[k]
       IN  /\ results' = (k :> Measure(loaded[d])) @@ results
           /\ loaded' = [loaded EXCEPT ![d] = NoJob]
    /\ running' = running \ {<<Len(s) + 1, k>>}
    /\ UNCHANGED <<pc, globals, phase, s, t0, outputs, started, failedAt>>

\* a loop body that consumes the parameter list while it appends
AppendEnergyConsumingParams ==
    /\ pc = "eval"
    /\ running = {}
    /\ DOMAIN results = DOMAIN energies[Len(s) + 1].devs
    /\ s' = Append(s, Dot(energies[Len(s) + 1], results))
    /\ params' = [params EXCEPT ![Len(s) + 1] = 0]
    /\ results' = <<>>
    /\ pc' = "loop"
    /\ UNCHANGED <<data, hamiltonians, devs_4, devs_7, devs, energies, phase, t0,
                   running, loaded, outputs, started, failedAt>>

\* l.163: every QNode has returned; the cost value is appended to s
AppendEnergy ==
    /\ pc = "eval"
    /\ running = {}
    /\ DOMAIN results = DOMAIN energies[Len(s) + 1].devs
    /\ s' = Append(s, Dot(energies[Len(s) + 1], results))
    /\ results' = <<>>
    /\ pc' = "loop"
    /\ UNCHANGED <<globals, phase, t0, running, loaded, outputs, started, failedAt>>

\* l.165-167: the loop is over; the elapsed time is taken and printed
PrintEvalTime ==
    /\ pc = "loop"
    /\ Len(s) = Len(energies)
    /\ out' = Append(out, <<"evaltime", phase>>)
    /\ pc' = "return"
    /\ UNCHANGED <<globals, phase, locals, surface, t_seq, t_par, plot, ret,
                   started, failedAt>>

\* l.168 with l.172 or l.175: the call returns and the module names are bound
Return ==
    /\ pc = "return"
    /\ surface' = s
    /\ ret' = Append(ret, s)
    /\ IF PassFlag(phase)
       THEN t_par' = Measured /\ t_seq' = t_seq
       ELSE t_seq' = Measured /\ t_par' = t_par
    /\ s' = <<>>
    /\ t0' = Unset
    /\ pc' = IF phase = 1 THEN "banner" ELSE "speedup"
    /\ phase' = phase + 1
    /\ UNCHANGED <<globals, running, results, loaded, out, plot, started, failedAt>>

\* l.177
PrintSpeedup ==
    /\ pc = "speedup"
    /\ out' = Append(out, <<"speedup">>)
    /\ pc' = "plot"
    /\ UNCHANGED <<globals, phase, locals, surface, t_seq, t_par, plot, ret,
                   started, failedAt>>

\* l.185-189
Plot ==
    /\ pc = "plot"
    /\ plot' = PlotPoints(surface)
    /\ pc' = "done"
    /\ UNCHANGED <<globals, phase, locals, surface, t_seq, t_par, out, ret,
                   started, failedAt>>

\* a library call raises; nothing catches it, the frame of calculate_surface is lost
Fail ==
    /\ pc \in Failable
    /\ failedAt' = pc
    /\ pc' = AfterRaise(pc)
    /\ s' = <<>>
    /\ t0' = Unset
    /\ running' = {}
    /\ results' = <<>>
    /\ loaded' = [d \in DOMAIN loaded |-> NoJob]
    /\ UNCHANGED <<globals, phase, outputs, started>>

Next ==
    \/ DefineData
    \/ BuildHamiltonian
    \/ PrintLens
    \/ CreateDev4
    \/ CreateDev7
    \/ ConcatDevs
    \/ LoadParams
    \/ BuildCost
    \/ PrintBanner
    \/ Enter
    \/ PrintRunning
    \/ CallCost
    \/ Dispatch
    \/ \E k \in 1..NumTerms : Finish(k)
    \/ AppendEnergy
    \/ PrintEvalTime
    \/ Return
    \/ PrintSpeedup
    \/ Plot
    \/ Fail

Spec == Init /\ [][Next]_vars

----------------------------------------------------------------------------
(* Reference values and views of the state used by the properties *)

RECURSIVE EnergyUpTo(_, _, _)
EnergyUpTo(h, param, n) ==
    IF n = 0 THEN 0
    ELSE EnergyUpTo(h, param, n - 1) + h.coeffs[n] * Expval(h.ops[n], param)

\* for each parameter file, the energy of each separation: the expectation
\* value of the Hamiltonian of the i-th key of data at the i-th entry of the file
ReferenceSurface ==
    [f \in ParamFiles |->
        [i \in 1..NumSeps |->
            EnergyUpTo(GenerateHamiltonian(Separation(i), File(i)), f[i], NumTerms)]]

Printed(kind) == SelectSeq(out, LAMBDA line : line[1] = kind)

CallsWith(flag) == SelectSeq(started, LAMBDA c : c[1] = flag)

DevId(a) == energies[a[1]].devs[a[2]]

C3_StaticPartition ==
    /\ devs # <<>> =>
        /\ Len(devs) = 15
        /\ \A k \in 1..15 : devs[k].chip = (IF k <= 8 THEN Chip4 ELSE Chip7)
        /\ \A j, k \in 1..15 : j # k => devs[j].id # devs[k].id
        /\ Cardinality({k \in 1..15 : devs[k].chip = Chip4}) = 8
        /\ Cardinality({k \in 1..15 : devs[k].chip = Chip7}) = 7
    /\ \A i \in 1..Len(energies) :
        /\ energies[i].ham = i
        /\ Len(hamiltonians[i].ops) = 15
        /\ Len(energies[i].devs) = 15
        /\ \A k \in 1..15 : energies[i].devs[k] = devs[k].id
    /\ phase >= 1 => Len(energies) = 10
    /\ \A a \in running :
        /\ loaded[devs[a[2]].id].ham = a[1]
        /\ loaded[devs[a[2]].id].term = a[2]

C3_AllTermsOnDevices ==
    /\ Len(energies) = 10
    /\ Cardinality(running) = 15
    /\ \A d \in DOMAIN loaded : loaded[d] # NoJob

\* C4: the i-th plotted point has the i-th atomic separation (the i-th key
\* of data) as its x-coordinate and the energy computed for that separation
\* as its y-coordinate.
C4_PlotSeparationVsEnergy ==
    plot # NoPlot =>
        /\ Len(plot) = Len(data)
        /\ \A i \in 1..Len(plot) :
            /\ plot[i].x = data[i].sep
            /\ plot[i].y = surface[i]

\* C5: in a pass with parallel=False at most one term evaluation is in
\* progress at any time; two or more are in progress only in a pass with
\* parallel=True.
C5_FlagSelectsMode ==
    /\ (phase \in {1, 2} /\ ~PassFlag(phase)) => Cardinality(running) <= 1
    /\ Cardinality(running) >= 2 => (phase \in {1, 2} /\ PassFlag(phase))

C5_SequentialDoneThenConcurrent ==
    /\ Len(CallsWith(FALSE)) = 10
    /\ Len(ret) = 1
    /\ PassFlag(phase)
    /\ Cardinality(running) >= 2

FailureStep ==
    /\ failedAt = ""
    /\ failedAt' # "" =>
        /\ pc' = "failed"
        /\ outputs' = outputs
        /\ globals' = globals
        /\ s' = <<>>
        /\ failedAt' = "eval" =>
            /\ Len(Printed("evaltime")') = phase' - 1
            /\ Len(Printed("speedup")') = 0
            /\ plot' = NoPlot
            /\ Len(ret') = phase' - 1
            /\ surface' = (IF phase' = 1 THEN NoSurface ELSE ret'[1])
            /\ (surface' = NoSurface \/ Len(surface') = 10)

\* C6: an exception in any step ends the script at that point: the script is
\* in its failed state, it takes no further step, and the failing step
\* printed nothing and bound nothing; when the failure is in a pass, that
\* pass has printed no evaluation time, no speedup line is printed, nothing is
\* plotted, and surface is what it was before the call (no partial surface).
C6_FailureEndsScript == [][FailureStep]_vars

C6_FailedInsideParallelPass ==
    /\ pc = "failed"
    /\ failedAt = "eval"
    /\ phase = 2
    /\ Len(Printed("running")) = 13

\* C7: in a complete run every Hamiltonian is evaluated exactly twice, once
\* with parallel=False and once with parallel=True; every sequential
\* evaluation has completed and the sequential evaluation time has been
\* printed before the first concurrent evaluation starts; the speedup line
\* is printed only after the concurrent pass has returned, and the plot is
\* made only after the speedup line.
C7_TwoOrderedPasses ==
    /\ pc = "done" =>
        \A i \in 1..10 :
            /\ Cardinality({n \in 1..Len(started) : started[n] = <<FALSE, i>>}) = 1
            /\ Cardinality({n \in 1..Len(started) : started[n] = <<TRUE, i>>}) = 1
    /\ pc = "done" => Len(started) = 20
    /\ Len(CallsWith(TRUE)) > 0 =>
        /\ Len(CallsWith(FALSE)) = 10
        /\ \A n \in 1..10 : started[n] = <<FALSE, n>>
        /\ Len(ret) >= 1
        /\ Len(Printed("evaltime")) >= 1
    /\ Len(Printed("speedup")) > 0 =>
        /\ Len(ret) = 2
        /\ Len(Printed("evaltime")) = 2
        /\ Len(CallsWith(TRUE)) = 10
    /\ plot # NoPlot => Len(Printed("speedup")) = 1

C7_CompleteRun ==
    /\ pc = "done"
    /\ plot # NoPlot
    /\ Len(started) = 20

PassStep ==
    pc \in {"enter", "loop", "call", "eval", "return"} =>
        /\ globals' = globals
        /\ plot' = plot
        /\ PassFlag(phase) => t_seq' = t_seq
        /\ ~PassFlag(phase) => t_par' = t_par
        /\ pc # "return" => (surface' = surface /\ t_seq' = t_seq /\ t_par' = t_par)

\* C8: no step of calculate_surface, for either value of the parallel flag,
\* changes data, hamiltonians, devs_4, devs_7, devs, params or energies; of
\* the module-level values a pass changes only surface and its own timing
\* variable (t_seq for parallel=False, t_par for parallel=True).
C8_PassFrame == [][PassStep]_vars

C8_SecondCallReturned ==
    /\ Len(ret) = 2
    /\ t_seq = Measured
    /\ t_par = Measured
    /\ params \in ParamFiles
    /\ Len(energies) = 10

\* C9: for either value of the parallel flag calculate_surface returns one
\* energy per separation, in the order of the keys of data: element i is the
\* value of the i-th Hamiltonian at params[i]; the progress lines name the
\* separations in that order, none skipped or repeated.
C9_OneEnergyPerSeparation ==
    /\ \A j \in 1..Len(ret) :
        /\ Len(ret[j]) = 10
        /\ ret[j] = ReferenceSurface[params]
    /\ Len(s) <= 10
    /\ params # <<>> => s = SubSeq(ReferenceSurface[params], 1, Len(s))
    /\ \A i \in 1..Len(energies) : energies[i].ham = i
    /\ params # <<>> => params \in ParamFiles
    /\ LET lines == Printed("running")
       IN  /\ \A n \in 1..Len(lines) : lines[n][2] = data[((n - 1) % 10) + 1].sep
           /\ pc \in {"call", "eval"} => Len(lines) = 10 * (phase - 1) + Len(s) + 1
           /\ pc \in {"loop", "return"} => Len(lines) = 10 * (phase - 1) + Len(s)

C9_SurfacesReturned ==
    /\ Len(ret) = 2
    /\ Len(ret[1]) = 10
    /\ ret[1][10] = ReferenceSurface[params][10]
    /\ Len(Printed("running")) = 20

\* C10: no device has more than one term evaluation in progress at a time,
\* in either pass: all ten cost objects use the same devices, the evaluations
\* in progress all belong to the separation the loop is at, and they are on
\* pairwise different devices; nothing is in progress when the loop moves on.
C10_OneEvaluationPerDevice ==
    /\ \A i \in 1..Len(energies) : energies[i].devs = energies[1].devs
    /\ \A a, b \in running :
        a # b => (a[1] = b[1] /\ DevId(a) # DevId(b))
    /\ \A a \in running : pc = "eval" /\ a[1] = Len(s) + 1
    /\ \A d \in DOMAIN loaded :
        Cardinality({a \in running : DevId(a) = d}) <= 1

C10_SecondSeparationConcurrent ==
    /\ PassFlag(phase)
    /\ Len(s) = 1
    /\ Cardinality(running) = 15

====
